---------------------------- MODULE Spec2Model ----------------------------
(***************************************************************************)
(* Model of the mortgage calculator of src/app/page.tsx: the React state   *)
(* of MortgageCalculator, its input-change handlers, and the values the    *)
(* component derives from that state on every render (periodic payment,    *)
(* PITI breakdown, amortization schedule, summary totals).                 *)
(*                                                                         *)
(* JavaScript Numbers are modelled as floating-point numbers of radix      *)
(* 10000 with a significand of Precision limbs (13 to 16 significant       *)
(* decimal digits for Precision = 4, against the 15.95 of an IEEE double)  *)
(* and an unbounded exponent.  Every arithmetic operation rounds its exact *)
(* result to the nearest Number (ties away from zero); NaN and the         *)
(* infinities behave as in IEEE arithmetic.                                *)
(***************************************************************************)
EXTENDS Integers, Sequences, FiniteSets, TLC

\* Limb base of the magnitude representation (four decimal digits a limb).
Base == 100 * 100

\* Number of limbs of a Number's significand (4 decimal digits each).
Precision == 4

---------------------------------------------------------------------------
(* Magnitudes: natural numbers as little-endian limb sequences.            *)

\* Up to eight runs in a row of a stretch Run of a loop, each `step` passes
\* long, from pass p on: the state after the first run that ends the loop
\* (st.done), or after the last.  Loops are evaluated in such stretches to
\* have every pass work on the finished state of the pass before.
Eight(Run(_, _), p, step, st) ==
  LET s1 == Run(p, st)
      s2 == Run(p + step, s1)
      s3 == Run(p + 2 * step, s2)
      s4 == Run(p + 3 * step, s3)
      s5 == Run(p + 4 * step, s4)
      s6 == Run(p + 5 * step, s5)
      s7 == Run(p + 6 * step, s6)
      s8 == Run(p + 7 * step, s7)
  IN  CASE s1.done -> s1
        [] s2.done -> s2
        [] s3.done -> s3
        [] s4.done -> s4
        [] s5.done -> s5
        [] s6.done -> s6
        [] s7.done -> s7
        [] OTHER   -> s8

\* Largest and smallest element of a non-empty set of integers.
SetMax(S) == CHOOSE x \in S : \A y \in S : y <= x

SetMin(S) == CHOOSE x \in S : \A y \in S : x <= y

\* m without the zero limbs at its high end.
Trim(m) ==
  IF Len(m) = 0 THEN <<>>
  ELSE SubSeq(m, 1, SetMax({0} \cup {i \in 1..Len(m) : m[i] # 0}))

\* n zero limbs.
Zeros(n) == [i \in 1..n |-> 0]

Limb(m, i) == IF i >= 1 /\ i <= Len(m) THEN m[i] ELSE 0

\* Limbs of a natural number n.
RECURSIVE MagOfNat(_)
MagOfNat(n) == IF n = 0 THEN <<>> ELSE <<n % Base>> \o MagOfNat(n \div Base)

\* Value of a magnitude that fits an integer.
RECURSIVE NatOfMag(_)
NatOfMag(m) == IF m = <<>> THEN 0 ELSE m[1] + Base * NatOfMag(Tail(m))

\* -1, 0, 1 as a < b, a = b, a > b (both trimmed): the longer is the
\* larger, and of two of one length the highest differing limb decides.
MagCmp(a, b) ==
  IF Len(a) < Len(b) THEN -1
  ELSE IF Len(a) > Len(b) THEN 1
  ELSE LET diff == {i \in 1..Len(a) : a[i] # b[i]}
       IN  IF diff = {} THEN 0
           ELSE IF a[SetMax(diff)] < b[SetMax(diff)] THEN -1
           ELSE 1

\* a + b for a, b of at most n limbs: limb i takes a carry when the nearest
\* lower limb pair whose sum is not Base - 1 overflows.
MagAddN(a, b, n) ==
  LET s == Trim([i \in 1..n |-> Limb(a, i) + Limb(b, i)])
      Carry(i) ==
        LET decided == {j \in 1..(i - 1) : Limb(s, j) # Base - 1}
        IN  IF decided # {} /\ Limb(s, SetMax(decided)) >= Base THEN 1 ELSE 0
  IN  IF s = <<>> THEN <<>>
      ELSE Trim([i \in 1..(n + 1) |-> (Limb(s, i) + Carry(i)) % Base])

\* a + b
MagAdd(a, b) ==
  IF Len(a) > Len(b) THEN MagAddN(a, b, Len(a)) ELSE MagAddN(a, b, Len(b))

\* a - b for a >= b: limb i gives a borrow when the nearest lower limb pair
\* that differs has the smaller limb in a.
MagSub(a, b) ==
  IF b = <<>> THEN a
  ELSE LET d == Trim([i \in 1..Len(a) |-> a[i] - Limb(b, i)])
           Borrow(i) ==
             LET decided == {j \in 1..(i - 1) : Limb(d, j) # 0}
             IN  IF decided # {} /\ Limb(d, SetMax(decided)) < 0 THEN 1 ELSE 0
       IN  IF d = <<>> THEN <<>>
           ELSE Trim([i \in 1..Len(a) |->
                        (Limb(d, i) - Borrow(i) + Base) % Base])

\* a * d for a limb d (0 <= d < Base): the low halves of the limb products
\* plus their high halves one limb up.
MagMulSmall(a, d) ==
  IF d = 0 \/ a = <<>> THEN <<>>
  ELSE MagAdd(Trim([i \in 1..Len(a) |-> (a[i] * d) % Base]),
              Trim(<<0>> \o [i \in 1..Len(a) |-> (a[i] * d) \div Base]))

\* Sum of a[i] * b[k + 1 - i] over the limbs i in lo..hi: what meets in
\* limb k of the product.
RECURSIVE Conv(_, _, _, _, _)
Conv(a, b, k, lo, hi) ==
  IF lo > hi THEN 0
  ELSE IF lo = hi THEN a[lo] * Limb(b, k + 1 - lo)
  ELSE Conv(a, b, k, lo, (lo + hi) \div 2)
         + Conv(a, b, k, (lo + hi) \div 2 + 1, hi)

\* a * b, exactly: the sums per limb, split in three limbs each.
MagMul(a, b) ==
  IF a = <<>> \/ b = <<>> THEN <<>>
  ELSE LET n == Len(a) + Len(b)
           c == Trim([k \in 1..n |->
                        Conv(a, b, k, 1, IF k < Len(a) THEN k ELSE Len(a))])
           m == Len(c)
       IN  MagAdd(MagAdd(Trim([k \in 1..m |-> c[k] % Base]),
                         Trim(<<0>> \o [k \in 1..m |-> (c[k] \div Base) % Base])),
                  Trim(<<0, 0>> \o [k \in 1..m |-> c[k] \div (Base * Base)]))

\* Largest d with b * d <= r, for r < b * Base and a b whose top limb is at
\* least Base / 2: the quotient of the two top limbs of r by the top limb of
\* b is d, d + 1 or d + 2.
QuotDigit(r, b) ==
  IF MagCmp(r, b) < 0 THEN 0
  ELSE LET m   == Len(b)
           est == (Limb(r, m + 1) * Base + Limb(r, m)) \div b[m]
           q0  == IF est > Base - 1 THEN Base - 1 ELSE est
       IN  IF MagCmp(MagMulSmall(b, q0), r) <= 0 THEN q0
           ELSE IF MagCmp(MagMulSmall(b, q0 - 1), r) <= 0 THEN q0 - 1
           ELSE q0 - 2

\* One step of the schoolbook long division of n by such a b, the i-th of
\* `steps`: the next limb of n is taken down to the remainder and the next
\* limb of the quotient found.  st is [r, q, done]: the remainder and the
\* quotient's limbs so far; done says the limbs of n are used up.
DivStep(n, b, steps, i, st) ==
  IF st.done THEN st
  ELSE IF i > steps THEN [st EXCEPT !.done = TRUE]
  ELSE LET r1 == Trim(<<n[steps + 1 - i]>> \o st.r)
           d  == QuotDigit(r1, b)
       IN  [r    |-> IF d = 0 THEN r1 ELSE MagSub(r1, MagMulSmall(b, d)),
            q    |-> <<d>> \o st.q,
            done |-> FALSE]

\* The whole part of n / b for b # 0 and n not shorter than b: both are
\* first scaled by f to bring the top limb of b to Base / 2 or more; the
\* top limbs of n, one fewer than b has, are the first remainder, and every
\* limb below them takes one step.
MagDiv(n, b) ==
  LET f     == Base \div (b[Len(b)] + 1)
      nf    == IF f <= 1 THEN n ELSE MagMulSmall(n, f)
      bf    == IF f <= 1 THEN b ELSE MagMulSmall(b, f)
      steps == Len(nf) - Len(bf) + 1
      One(i, st)      == DivStep(nf, bf, steps, i, st)
      Stretch8(i, st) == Eight(One, i, 1, st)
      ForLimbs(i, st) == Eight(Stretch8, i, 8, st)
  IN  Trim(ForLimbs(1, [r |-> SubSeq(nf, steps + 1, Len(nf)), q |-> <<>>,
                        done |-> FALSE]).q)

---------------------------------------------------------------------------
(* Numbers: radix-Base floating point.  A finite Number is                 *)
(*   [neg |-> sign, mag |-> significand, exp |-> exponent]                 *)
(* with value (-1)^neg * mag * Base^exp, the significand having at most    *)
(* Precision limbs and no zero limb at either end (so equal values are     *)
(* equal records).  NaN and the two infinities are the IEEE special values.*)

NaN == [special |-> "NaN"]

Infinity(neg) == [special |-> IF neg THEN "-Infinity" ELSE "Infinity"]

IsSpecial(x) == "special" \in DOMAIN x

IsInf(x) == IsSpecial(x) /\ x.special # "NaN"

Zero == [neg |-> FALSE, mag |-> <<>>, exp |-> 0]

IsZero(x) == ~IsSpecial(x) /\ x.mag = <<>>

Negative(x) == IF IsSpecial(x) THEN x.special = "-Infinity" ELSE x.neg

\* Number of zero limbs at the low end of m # <<>> (trimmed).
LowZeros(m) == SetMin({i \in 1..Len(m) : m[i] # 0}) - 1

\* m rounded to at most Precision limbs (half away from zero): the kept
\* limbs and the number of limbs dropped.
RoundMag(m) ==
  IF Len(m) <= Precision THEN [mag |-> m, dropped |-> 0]
  ELSE LET k    == Len(m) - Precision
           kept == SubSeq(m, k + 1, Len(m))
       IN  [mag     |-> IF m[k] >= Base \div 2 THEN MagAdd(kept, <<1>>) ELSE kept,
            dropped |-> k]

\* Limbs above the radix point of the largest finite Number: a value of
\* Base^MaxTop (1e308) or more overflows to an infinity, as a double does
\* from about 1.8e308 on.
MaxTop == 308 \div 4

\* The Number nearest to (-1)^neg * mag * Base^exp.
Mk(neg, mag, exp) ==
  LET t == Trim(mag)
  IN  IF t = <<>> THEN Zero
      ELSE IF exp + Len(t) > MaxTop THEN Infinity(neg)
      ELSE LET r == RoundMag(t)
               z == LowZeros(r.mag)
           IN  [neg |-> neg,
                mag |-> SubSeq(r.mag, z + 1, Len(r.mag)),
                exp |-> exp + r.dropped + z]

\* The Number of an integer n.
Num(n) == Mk(n < 0, MagOfNat(IF n < 0 THEN -n ELSE n), 0)

\* Position of the limb above the top limb of x # 0.
Top(x) == x.exp + Len(x.mag)

\* -x
Neg(x) ==
  CASE x = NaN   -> NaN
    [] IsInf(x)  -> Infinity(~Negative(x))
    [] IsZero(x) -> Zero
    [] OTHER     -> [neg |-> ~x.neg, mag |-> x.mag, exp |-> x.exp]

\* x + y for finite non-zero x, y; an operand too small to reach the
\* other's rounding limb leaves the other unchanged.
AddFinite(x, y) ==
  LET e == IF x.exp < y.exp THEN x.exp ELSE y.exp
      a == Zeros(x.exp - e) \o x.mag
      b == Zeros(y.exp - e) \o y.mag
  IN  CASE Top(x) - Top(y) > Precision + 2 -> x
        [] Top(y) - Top(x) > Precision + 2 -> y
        [] x.neg = y.neg                   -> Mk(x.neg, MagAdd(a, b), e)
        [] MagCmp(a, b) >= 0               -> Mk(x.neg, MagSub(a, b), e)
        [] OTHER                           -> Mk(y.neg, MagSub(b, a), e)

\* x + y
Add(x, y) ==
  CASE x = NaN \/ y = NaN -> NaN
    [] IsInf(x)  -> IF IsInf(y) /\ x # y THEN NaN ELSE x
    [] IsInf(y)  -> y
    [] IsZero(x) -> y
    [] IsZero(y) -> x
    [] OTHER     -> AddFinite(x, y)

\* x - y
Sub(x, y) == Add(x, Neg(y))

\* x * y
Mul(x, y) ==
  CASE x = NaN \/ y = NaN -> NaN
    [] IsInf(x) \/ IsInf(y) ->
         IF IsZero(x) \/ IsZero(y) THEN NaN
         ELSE Infinity(Negative(x) # Negative(y))
    [] IsZero(x) \/ IsZero(y) -> Zero
    [] OTHER -> Mk(x.neg # y.neg, MagMul(x.mag, y.mag), x.exp + y.exp)

\* x / y for finite non-zero x, y: the quotient of the significands is
\* taken to Precision + 1 limbs or more, then rounded.
DivFinite(x, y) ==
  LET s == Precision + 2 + Len(y.mag) - Len(x.mag)
  IN  Mk(x.neg # y.neg, MagDiv(Zeros(s) \o x.mag, y.mag), x.exp - y.exp - s)

\* x / y
Div(x, y) ==
  CASE x = NaN \/ y = NaN -> NaN
    [] IsInf(x)  -> IF IsInf(y) THEN NaN ELSE Infinity(Negative(x) # Negative(y))
    [] IsInf(y)  -> Zero
    [] IsZero(y) -> IF IsZero(x) THEN NaN ELSE Infinity(x.neg)
    [] IsZero(x) -> Zero
    [] OTHER     -> DivFinite(x, y)

\* -1, 0, 1 as |x| < |y|, |x| = |y|, |x| > |y| for finite non-zero x, y.
CmpAbs(x, y) ==
  LET e == IF x.exp < y.exp THEN x.exp ELSE y.exp
  IN  CASE Top(x) < Top(y) -> -1
        [] Top(x) > Top(y) -> 1
        [] OTHER -> MagCmp(Zeros(x.exp - e) \o x.mag, Zeros(y.exp - e) \o y.mag)

\* -1, 0, 1 as x < y, x = y, x > y, for x, y other than NaN.
Cmp(x, y) ==
  CASE x = y     -> 0
    [] IsInf(x)  -> IF Negative(x) THEN -1 ELSE 1
    [] IsInf(y)  -> IF Negative(y) THEN 1 ELSE -1
    [] IsZero(x) -> IF y.neg THEN 1 ELSE -1
    [] IsZero(y) -> IF x.neg THEN -1 ELSE 1
    [] x.neg /\ ~y.neg -> -1
    [] ~x.neg /\ y.neg -> 1
    [] x.neg     -> CmpAbs(y, x)
    [] OTHER     -> CmpAbs(x, y)

\* Comparisons; every comparison with NaN is false, as in JavaScript.
Lt(x, y) == x # NaN /\ y # NaN /\ Cmp(x, y) < 0
Le(x, y) == x # NaN /\ y # NaN /\ Cmp(x, y) <= 0
Gt(x, y) == Lt(y, x)
Ge(x, y) == Le(y, x)
Eq(x, y) == x # NaN /\ y # NaN /\ Cmp(x, y) = 0

\* The whole part of a finite Number x >= 0, as an integer.
WholePart(x) ==
  CASE IsZero(x) -> 0
    [] x.exp >= 0 -> NatOfMag(Zeros(x.exp) \o x.mag)
    [] -x.exp >= Len(x.mag) -> 0
    [] OTHER -> NatOfMag(SubSeq(x.mag, 1 - x.exp, Len(x.mag)))

\* The decimal literal n / 10^k, e.g. Dec(18, 1) is 1.8.
RECURSIVE Pow10(_)
Pow10(k) == IF k = 0 THEN 1 ELSE 10 * Pow10(k - 1)

Dec(n, k) == Div(Num(n), Num(Pow10(k)))

\* acc * x^n for a natural number n, by repeated squaring.
RECURSIVE PowAt(_, _, _)
PowAt(x, n, acc) ==
  IF n = 0 THEN acc
  ELSE IF x = NaN \/ acc = NaN THEN NaN
  ELSE PowAt(Mul(x, x), n \div 2, IF n % 2 = 1 THEN Mul(acc, x) ELSE acc)

\* Math.pow(x, n) for x >= 0 and a Number n with an integral value or an
\* infinite one.
Pow(x, n) ==
  CASE n = NaN \/ x = NaN -> NaN
    [] IsInf(n)    -> IF Eq(x, Num(1)) THEN NaN
                      ELSE IF Gt(x, Num(1)) = Negative(n) THEN Zero
                      ELSE Infinity(FALSE)
    [] Negative(n) -> Div(Num(1), PowAt(x, WholePart(Neg(n)), Num(1)))
    [] OTHER       -> PowAt(x, WholePart(n), Num(1))

---------------------------------------------------------------------------
(* The component's state (the useState hooks of MortgageCalculator).       *)

VARIABLES
  loanAmount,             \* Number
  interestRate,           \* Number, annual percent
  loanTerm,               \* Number, years
  homeValue,              \* Number
  propertyTaxRate,        \* Number, annual percent
  yearlyInsurance,        \* Number
  monthlyHOA,             \* Number
  firstPaymentDate,       \* string
  paymentFrequency,       \* "monthly" | "biweekly" | "weekly" | "semimonthly"
  extraPaymentPerPeriod,  \* Number
  showFullSchedule,       \* BOOLEAN
  lastExport              \* <<>> before the first export, then <<r>> for the
                          \* loan inputs r of the render whose export
                          \* button was clicked last

vars == <<loanAmount, interestRate, loanTerm, homeValue, propertyTaxRate,
          yearlyInsurance, monthlyHOA, firstPaymentDate, paymentFrequency,
          extraPaymentPerPeriod, showFullSchedule, lastExport>>

PaymentFrequency == {"monthly", "biweekly", "weekly", "semimonthly"}

PERIODS_PER_YEAR ==
  [f \in PaymentFrequency |->
     CASE f = "monthly"     -> 12
       [] f = "biweekly"    -> 26
       [] f = "weekly"      -> 52
       [] f = "semimonthly" -> 24]

---------------------------------------------------------------------------
(* Core math based on frequency: the values derived on every render.       *)

periodsPerYear == PERIODS_PER_YEAR[paymentFrequency]

\* interestRate / 100 / periodsPerYear
RatePerPeriod(rate, ppy) == Div(Div(rate, Num(100)), Num(ppy))

ratePerPeriod == RatePerPeriod(interestRate, periodsPerYear)

\* loanTerm * periodsPerYear
TotalPeriods(term, ppy) == Mul(term, Num(ppy))

totalPeriods == TotalPeriods(loanTerm, periodsPerYear)

\* (amount * r * pow(1 + r, n)) / (pow(1 + r, n) - 1)
Annuity(amount, r, n) ==
  LET pw == Pow(Add(Num(1), r), n)
  IN  Div(Mul(Mul(amount, r), pw), Sub(pw, Num(1)))

\* Faulty variant of PaymentPerPeriod: the guard on a non-positive amount
\* or number of periods is missing.
PaymentUnguarded(amount, r, n) ==
  IF Eq(r, Zero) THEN Div(amount, n) ELSE Annuity(amount, r, n)

\* Faulty variant of PaymentPerPeriod: the zero-rate branch is missing.
PaymentAnnuityOnly(amount, r, n) ==
  IF Le(amount, Zero) \/ Le(n, Zero) THEN Zero ELSE Annuity(amount, r, n)

PaymentPerPeriod(amount, r, n) ==
  IF Le(amount, Zero) \/ Le(n, Zero) THEN Zero
  ELSE IF Eq(r, Zero) THEN Div(amount, n)
  ELSE Annuity(amount, r, n)

paymentPerPeriod == PaymentPerPeriod(loanAmount, ratePerPeriod, totalPeriods)

---------------------------------------------------------------------------
(* Amortization schedule (per-period, then rolled up to yearly).           *)

\* The 0.01 of the loop condition and of the early-payoff break.
Epsilon == Dec(1, 2)

\* Faulty variant of Max0: the balance is stored as it is.
NoFloor(x) == x

\* Math.max(0, x)
Max0(x) == IF x = NaN THEN NaN ELSE IF Lt(x, Zero) THEN Zero ELSE x

\* Faulty variant of YearOf: Math.floor in place of Math.ceil.
YearFloor(period, ppy) == period \div ppy

\* Math.ceil(period / periodsPerYear)
YearOf(period, ppy) == (period + ppy - 1) \div ppy

\* Faulty variant of PrincipalPayment: the extra payment is not applied.
PrincipalNoExtra(payment, interestPayment, extra, balance) ==
  LET principalPayment == Sub(payment, interestPayment)
  IN  IF Gt(principalPayment, Add(balance, interestPayment))
        THEN balance
        ELSE principalPayment

\* paymentPerPeriod - interestPayment + extraPaymentPerPeriod, replaced by
\* the balance when it exceeds balance + interestPayment.
PrincipalPayment(payment, interestPayment, extra, balance) ==
  LET principalPayment == Add(Sub(payment, interestPayment), extra)
  IN  IF Gt(principalPayment, Add(balance, interestPayment))
        THEN balance
        ELSE principalPayment

\* balance * ratePerPeriod, or 0 for a zero rate.
InterestPayment(balance, r) ==
  IF Eq(r, Zero) THEN Zero ELSE Mul(balance, r)

\* The loop condition: period <= totalPeriods && balance > 0.01.
LoopContinues(period, n, balance) ==
  Le(Num(period), n) /\ Gt(balance, Epsilon)

\* What one period pays in: the regular payment and the extra payment, or,
\* when the clamp of the principal has fired, the balance and its interest.
AmountApplied(payment, interestPayment, extra, balance) ==
  IF Gt(Add(Sub(payment, interestPayment), extra),
        Add(balance, interestPayment))
    THEN Add(balance, interestPayment)
    ELSE Add(payment, extra)

\* The body of the for loop for one period: the balance and the Map of
\* year buckets after it.  The field applied of a bucket is bookkeeping of
\* the model: the amounts paid in during the year, which the read-out of
\* the rows never looks at.
LoopBody(in, period, balance, byYear) ==
  LET interestPayment  == InterestPayment(balance, in.ratePerPeriod)
      principalPayment == PrincipalPayment(in.paymentPerPeriod, interestPayment,
                                           in.extraPaymentPerPeriod, balance)
      year    == YearOf(period, in.periodsPerYear)
      current == IF year \in DOMAIN byYear
                   THEN byYear[year]
                   ELSE [principal |-> Zero, interest |-> Zero,
                         remaining |-> balance, applied |-> Zero]
      newBalance == Sub(balance, principalPayment)
      bucket  == [interest  |-> Add(current.interest, interestPayment),
                  principal |-> Add(current.principal, principalPayment),
                  remaining |-> Max0(newBalance),
                  applied   |-> Add(current.applied,
                                    AmountApplied(in.paymentPerPeriod,
                                                  interestPayment,
                                                  in.extraPaymentPerPeriod,
                                                  balance))]
  IN  [byYear |-> (year :> bucket) @@ byYear, balance |-> newBalance]

\* Faulty variant of Iteration: the loop runs to totalPeriods whatever the
\* balance is, without the balance test of its condition and without its
\* break.
IterationWithoutPayoff(in, period, st) ==
  IF st.done THEN st
  ELSE IF ~Le(Num(period), in.totalPeriods)
    THEN [st EXCEPT !.done = TRUE]
  ELSE LET st1 == LoopBody(in, period, st.balance, st.byYear)
       IN  [balance |-> st1.balance, byYear |-> st1.byYear,
            periods |-> period,
            done |-> FALSE]

\* One iteration of the for loop, its condition and its break included.
\* st is [balance, byYear, periods, done]; periods is the last period
\* whose body has run and done says the loop has ended.
Iteration(in, period, st) ==
  IF st.done THEN st
  ELSE IF ~LoopContinues(period, in.totalPeriods, st.balance)
    THEN [st EXCEPT !.done = TRUE]
  ELSE LET st1 == LoopBody(in, period, st.balance, st.byYear)
       IN  [balance |-> st1.balance, byYear |-> st1.byYear,
            periods |-> period,
            done |-> Le(st1.balance, Epsilon)]

\* for (let period = 1; period <= totalPeriods && balance > 0.01; period++):
\* the iterations for period = 1, 2, ... in that order, in stretches of 8, 64
\* and 512 periods (more than MaxPeriods); the loop condition ends them.
\* The state the loop is left in, or, for a loop that has not ended by
\* then, the state after 512 periods.
LoopEnd(in) ==
  LET One(p, st)       == Iteration(in, p, st)
      Stretch8(p, st)  == Eight(One, p, 1, st)
      Stretch64(p, st) == Eight(Stretch8, p, 8, st)
      ForPeriods(p, st) == Eight(Stretch64, p, 64, st)
  IN  ForPeriods(1, [balance |-> in.loanAmount, byYear |-> <<>>,
                     periods |-> 0, done |-> FALSE])

\* The Map of year buckets the loop leaves.
PeriodLoop(in) == LoopEnd(in).byYear

\* Array.from(byYear.keys()).sort((a, b) => a - b)
SortedKeys(S) ==
  [i \in 1..Cardinality(S) |->
     CHOOSE x \in S : Cardinality({y \in S : y < x}) = i - 1]

\* One pass of the read-out loop, for the i-th year: st is
\* [rows, cumulativePrincipal, cumulativeInterest, done]; done says the
\* years are used up.
ReadOut(byYear, years, i, st) ==
  IF st.done THEN st
  ELSE IF i > Len(years) THEN [st EXCEPT !.done = TRUE]
  ELSE LET bucket == byYear[years[i]]
           cp == Add(st.cumulativePrincipal, bucket.principal)
           ci == Add(st.cumulativeInterest, bucket.interest)
       IN  [rows |-> Append(st.rows,
                            [year |-> years[i],
                             principal |-> bucket.principal,
                             interest |-> bucket.interest,
                             remaining |-> bucket.remaining,
                             cumulativePrincipal |-> cp,
                             cumulativeInterest |-> ci]),
            cumulativePrincipal |-> cp,
            cumulativeInterest |-> ci,
            done |-> FALSE]

\* The read-out loop: rows in key order with running sums, the passes for
\* the first, second, ... year in that order (in stretches, as PeriodLoop).
Rows(byYear) ==
  LET years == SortedKeys(DOMAIN byYear)
      One(i, st)       == ReadOut(byYear, years, i, st)
      Stretch8(i, st)  == Eight(One, i, 1, st)
      Stretch64(i, st) == Eight(Stretch8, i, 8, st)
      ForYears(i, st)  == Eight(Stretch64, i, 64, st)
  IN  ForYears(1, [rows |-> <<>>, cumulativePrincipal |-> Zero,
                   cumulativeInterest |-> Zero, done |-> FALSE]).rows

\* calculateAmortization for the inputs `in`.
CalculateAmortization(in) ==
  IF Le(in.loanAmount, Zero) \/ Le(in.loanTerm, Zero) \/ Le(in.totalPeriods, Zero)
    THEN <<>>
    ELSE Rows(PeriodLoop(in))

\* What the closure calculateAmortization reads from the render's scope.
Inputs(amount, rate, term, freq, extra) ==
  LET ppy == PERIODS_PER_YEAR[freq]
      r   == RatePerPeriod(rate, ppy)
      n   == TotalPeriods(term, ppy)
  IN  [loanAmount |-> amount, loanTerm |-> term, periodsPerYear |-> ppy,
       ratePerPeriod |-> r, totalPeriods |-> n,
       paymentPerPeriod |-> PaymentPerPeriod(amount, r, n),
       extraPaymentPerPeriod |-> extra]

\* Faulty variant of amortizationData: the schedule is cut to the rows on
\* display.
ScheduleAsShown ==
  LET rows == CalculateAmortization(Inputs(loanAmount, interestRate, loanTerm,
                                           paymentFrequency,
                                           extraPaymentPerPeriod))
  IN  IF showFullSchedule \/ Len(rows) <= 10 THEN rows ELSE SubSeq(rows, 1, 10)

amortizationData ==
  CalculateAmortization(Inputs(loanAmount, interestRate, loanTerm,
                               paymentFrequency, extraPaymentPerPeriod))

---------------------------------------------------------------------------
(* PITI-style breakdown.                                                   *)

\* (paymentPerPeriod * periodsPerYear) / 12
principalAndInterestPerMonth ==
  Div(Mul(paymentPerPeriod, Num(periodsPerYear)), Num(12))

\* Faulty variant of extraPerMonth: computed from the periodic payment.
ExtraPerMonthFromPayment ==
  Div(Mul(paymentPerPeriod, Num(periodsPerYear)), Num(12))

\* (extraPaymentPerPeriod * periodsPerYear) / 12
extraPerMonth == Div(Mul(extraPaymentPerPeriod, Num(periodsPerYear)), Num(12))

\* homeValue * (propertyTaxRate / 100)
yearlyPropertyTax == Mul(homeValue, Div(propertyTaxRate, Num(100)))

monthlyPropertyTax == Div(yearlyPropertyTax, Num(12))

monthlyInsurance == Div(yearlyInsurance, Num(12))

\* Faulty variant of monthlyPITI: the extra payment is left out of the sum.
PITIWithoutExtra ==
  Add(Add(Add(principalAndInterestPerMonth, monthlyPropertyTax),
          monthlyInsurance),
      monthlyHOA)

monthlyPITI ==
  Add(Add(Add(Add(principalAndInterestPerMonth, monthlyPropertyTax),
              monthlyInsurance),
          monthlyHOA),
      extraPerMonth)

---------------------------------------------------------------------------
(* Summary totals.                                                         *)

\* amortizationData[amortizationData.length - 1]: the last row, or the
\* string "undefined" for an empty schedule.
LastRow(rows) == IF Len(rows) > 0 THEN rows[Len(rows)] ELSE "undefined"

\* The optional chaining lastRow?. yields undefined for an empty schedule.
IsUndefined(rows) == Len(rows) = 0

\* lastRow?.cumulativeInterest ?? 0
TotalInterest(rows) ==
  IF IsUndefined(rows) THEN Zero ELSE LastRow(rows).cumulativeInterest

\* Faulty variant of TotalPrincipal: 0 in place of the loan amount for an
\* empty schedule.
TotalPrincipalNoFallback(rows, amount) ==
  IF Len(rows) = 0 THEN Zero ELSE rows[Len(rows)].cumulativePrincipal

\* lastRow?.cumulativePrincipal ?? loanAmount
TotalPrincipal(rows, amount) ==
  IF IsUndefined(rows) THEN amount ELSE LastRow(rows).cumulativePrincipal

\* totalPrincipal + totalInterest
TotalPayment(rows, amount) == Add(TotalPrincipal(rows, amount), TotalInterest(rows))

totalInterest == TotalInterest(amortizationData)

totalPrincipal == TotalPrincipal(amortizationData, loanAmount)

totalPayment == TotalPayment(amortizationData, loanAmount)

\* Faulty variant of RowsToShow: every row is shown whatever the toggle says.
ShowsEveryRow(rows, full) == rows

\* showFullSchedule ? amortizationData : amortizationData.slice(0, 10)
RowsToShow(rows, full) ==
  IF full THEN rows
  ELSE SubSeq(rows, 1, IF Len(rows) < 10 THEN Len(rows) ELSE 10)

rowsToShow == RowsToShow(amortizationData, showFullSchedule)

\* x.toFixed(2) of a Number below 10^21: the sign, then the nearest count of
\* hundredths (the larger of two equally near), written with two decimals.
ToFixed2(x) ==
  IF IsSpecial(x) THEN x.special
  ELSE LET hundredths == WholePart(Add(Mul([x EXCEPT !.neg = FALSE], Num(100)),
                                       Dec(5, 1)))
           cents      == hundredths % 100
       IN  (IF x.neg /\ ~IsZero(x) THEN "-" ELSE "")
             \o ToString(hundredths \div 100) \o "."
             \o (IF cents < 10 THEN "0" ELSE "") \o ToString(cents)

\* r.join(sep) for a non-empty array r of strings, from its i-th element
\* on, acc being the text joined so far.
RECURSIVE JoinFrom(_, _, _, _)
JoinFrom(r, sep, i, acc) ==
  IF i > Len(r) THEN acc ELSE JoinFrom(r, sep, i + 1, acc \o sep \o r[i])

\* r.join(sep)
Join(r, sep) == IF r = <<>> THEN "" ELSE JoinFrom(r, sep, 2, r[1])

\* The header of the exported file.
CsvHeader ==
  <<"Year", "Principal Paid", "Interest Paid", "Cumulative Principal",
    "Cumulative Interest", "Remaining Balance">>

\* The cells of one row of the exported file.
CsvRow(row) ==
  <<ToString(row.year), ToFixed2(row.principal), ToFixed2(row.interest),
    ToFixed2(row.cumulativePrincipal), ToFixed2(row.cumulativeInterest),
    ToFixed2(row.remaining)>>

\* Faulty variant of CsvContent: at most the first ten rows are exported.
CsvOfFirstTen(rows) ==
  Join([i \in 1..((IF Len(rows) > 10 THEN 10 ELSE Len(rows)) + 1) |->
          Join(IF i = 1 THEN CsvHeader ELSE CsvRow(rows[i - 1]), ",")],
       "\n")

\* [header, ...rows].map((r) => r.join(",")).join("\n")
CsvContent(rows) ==
  Join([i \in 1..(Len(rows) + 1) |->
          Join(IF i = 1 THEN CsvHeader ELSE CsvRow(rows[i - 1]), ",")],
       "\n")

\* The text handleExportExcel builds in the current render.
csvContent == CsvContent(amortizationData)

\* The amortizationData of the render whose export button was clicked last.
exportedSchedule ==
  IF lastExport = <<>> THEN <<>>
  ELSE LET r == lastExport[1]
       IN  CalculateAmortization(
             Inputs(r.loanAmount, r.interestRate, r.loanTerm,
                    r.paymentFrequency, r.extraPaymentPerPeriod))

\* The text of the file the last export has handed to the browser, "" before
\* the first export: the handler's csvContent for the amortizationData of
\* its render.
csvDownload ==
  IF lastExport = <<>> THEN "" ELSE CsvContent(exportedSchedule)

---------------------------------------------------------------------------
(* The form: what a user may type, and the onChange handlers.              *)

\* Number(e.target.value) || 0, for the Number v the typed text parses to
\* (NaN for a text that is no number).
OrZero(v) == IF v = NaN \/ IsZero(v) THEN Zero ELSE v

ChangeLoanAmount(v) ==
  /\ loanAmount' = OrZero(v)
  /\ UNCHANGED <<interestRate, loanTerm, homeValue, propertyTaxRate,
                 yearlyInsurance, monthlyHOA, firstPaymentDate,
                 paymentFrequency, extraPaymentPerPeriod, showFullSchedule,
                 lastExport>>

ChangeInterestRate(v) ==
  /\ interestRate' = OrZero(v)
  /\ UNCHANGED <<loanAmount, loanTerm, homeValue, propertyTaxRate,
                 yearlyInsurance, monthlyHOA, firstPaymentDate,
                 paymentFrequency, extraPaymentPerPeriod, showFullSchedule,
                 lastExport>>

ChangeLoanTerm(v) ==
  /\ loanTerm' = OrZero(v)
  /\ UNCHANGED <<loanAmount, interestRate, homeValue, propertyTaxRate,
                 yearlyInsurance, monthlyHOA, firstPaymentDate,
                 paymentFrequency, extraPaymentPerPeriod, showFullSchedule,
                 lastExport>>

ChangeFirstPaymentDate(d) ==
  /\ firstPaymentDate' = d
  /\ UNCHANGED <<loanAmount, interestRate, loanTerm, homeValue,
                 propertyTaxRate, yearlyInsurance, monthlyHOA,
                 paymentFrequency, extraPaymentPerPeriod, showFullSchedule,
                 lastExport>>

ChangePaymentFrequency(f) ==
  /\ paymentFrequency' = f
  /\ UNCHANGED <<loanAmount, interestRate, loanTerm, homeValue,
                 propertyTaxRate, yearlyInsurance, monthlyHOA,
                 firstPaymentDate, extraPaymentPerPeriod, showFullSchedule,
                 lastExport>>

ChangeExtraPayment(v) ==
  /\ extraPaymentPerPeriod' = OrZero(v)
  /\ UNCHANGED <<loanAmount, interestRate, loanTerm, homeValue,
                 propertyTaxRate, yearlyInsurance, monthlyHOA,
                 firstPaymentDate, paymentFrequency, showFullSchedule,
                 lastExport>>

ChangeHomeValue(v) ==
  /\ homeValue' = OrZero(v)
  /\ UNCHANGED <<loanAmount, interestRate, loanTerm, propertyTaxRate,
                 yearlyInsurance, monthlyHOA, firstPaymentDate,
                 paymentFrequency, extraPaymentPerPeriod, showFullSchedule,
                 lastExport>>

ChangePropertyTaxRate(v) ==
  /\ propertyTaxRate' = OrZero(v)
  /\ UNCHANGED <<loanAmount, interestRate, loanTerm, homeValue,
                 yearlyInsurance, monthlyHOA, firstPaymentDate,
                 paymentFrequency, extraPaymentPerPeriod, showFullSchedule,
                 lastExport>>

ChangeYearlyInsurance(v) ==
  /\ yearlyInsurance' = OrZero(v)
  /\ UNCHANGED <<loanAmount, interestRate, loanTerm, homeValue,
                 propertyTaxRate, monthlyHOA, firstPaymentDate,
                 paymentFrequency, extraPaymentPerPeriod, showFullSchedule,
                 lastExport>>

ChangeMonthlyHOA(v) ==
  /\ monthlyHOA' = OrZero(v)
  /\ UNCHANGED <<loanAmount, interestRate, loanTerm, homeValue,
                 propertyTaxRate, yearlyInsurance, firstPaymentDate,
                 paymentFrequency, extraPaymentPerPeriod, showFullSchedule,
                 lastExport>>

\* onClick={() => setShowFullSchedule(!showFullSchedule)}
ToggleFullSchedule ==
  /\ showFullSchedule' = ~showFullSchedule
  /\ UNCHANGED <<loanAmount, interestRate, loanTerm, homeValue,
                 propertyTaxRate, yearlyInsurance, monthlyHOA,
                 firstPaymentDate, paymentFrequency, extraPaymentPerPeriod,
                 lastExport>>

\* onClick={handleExportExcel}, in the browser (window is defined): the
\* handler of the current render runs, which builds the text from that
\* render's amortizationData and hands it over as a download (csvDownload
\* below); no state of the component changes.
HandleExportExcel ==
  /\ lastExport' = <<[loanAmount |-> loanAmount,
                      interestRate |-> interestRate,
                      loanTerm |-> loanTerm,
                      paymentFrequency |-> paymentFrequency,
                      extraPaymentPerPeriod |-> extraPaymentPerPeriod]>>
  /\ UNCHANGED <<loanAmount, interestRate, loanTerm, homeValue,
                 propertyTaxRate, yearlyInsurance, monthlyHOA,
                 firstPaymentDate, paymentFrequency, extraPaymentPerPeriod,
                 showFullSchedule>>

\* The state after construction: the useState defaults.
Init ==
  /\ loanAmount = Num(300000)
  /\ interestRate = Num(5)
  /\ loanTerm = Num(30)
  /\ homeValue = Num(300000)
  /\ propertyTaxRate = Dec(18, 1)
  /\ yearlyInsurance = Num(1000)
  /\ monthlyHOA = Zero
  /\ firstPaymentDate = ""
  /\ paymentFrequency = "monthly"
  /\ extraPaymentPerPeriod = Zero
  /\ showFullSchedule = FALSE
  /\ lastExport = <<>>

---------------------------------------------------------------------------
(* Bounds of the model and the inputs it draws.                            *)

\* The model follows the form only through states whose schedule has at
\* most MaxPeriods periods.
MaxPeriods == 360

PeriodsBounded(term, f) ==
  Le(TotalPeriods(term, PERIODS_PER_YEAR[f]), Num(MaxPeriods))

\* Typed loan amounts: no number, a negative one, a small and a usual one.
LoanAmounts == {NaN, Num(-1000), Num(1000), Num(300000)}

\* Typed rates: none, the default, a fraction, and one far above the
\* form's max attribute.
InterestRates == {NaN, Num(5), Dec(65, 1), Num(100)}

\* Typed terms: none, a negative one, one year, five years, the default.
LoanTerms == {NaN, Num(-1), Num(1), Num(5), Num(30)}

\* Typed extra payments per period.
ExtraPayments == {NaN, Num(500), Num(1000)}

\* The loan form alone: the five inputs the schedule is computed from.
NextLoan ==
  \/ \E v \in LoanAmounts : ChangeLoanAmount(v)
  \/ \E v \in InterestRates : ChangeInterestRate(v)
  \/ \E v \in LoanTerms :
       PeriodsBounded(OrZero(v), paymentFrequency) /\ ChangeLoanTerm(v)
  \/ \E f \in PaymentFrequency :
       PeriodsBounded(loanTerm, f) /\ ChangePaymentFrequency(f)
  \/ \E v \in ExtraPayments : ChangeExtraPayment(v)

SpecLoan == Init /\ [][NextLoan]_vars

\* The whole form, with two values a field.
Next ==
  \/ \E v \in {NaN, Num(300000)} : ChangeLoanAmount(v)
  \/ \E v \in {NaN, Num(5)} : ChangeInterestRate(v)
  \/ \E v \in {NaN, Num(30)} :
       PeriodsBounded(OrZero(v), paymentFrequency) /\ ChangeLoanTerm(v)
  \/ \E d \in {"", "2026-01-01"} : ChangeFirstPaymentDate(d)
  \/ \E f \in PaymentFrequency :
       PeriodsBounded(loanTerm, f) /\ ChangePaymentFrequency(f)
  \/ \E v \in {NaN, Num(500)} : ChangeExtraPayment(v)
  \/ \E v \in {NaN, Num(300000)} : ChangeHomeValue(v)
  \/ \E v \in {NaN, Dec(18, 1)} : ChangePropertyTaxRate(v)
  \/ \E v \in {NaN, Num(1000)} : ChangeYearlyInsurance(v)
  \/ \E v \in {NaN, Num(250), Num(-250)} : ChangeMonthlyHOA(v)
  \/ ToggleFullSchedule

Spec == Init /\ [][Next]_vars

\* The loan form with two values a field, the date and the schedule toggle:
\* the events after which the schedule is rendered.
NextView ==
  \/ \E v \in {NaN, Num(300000)} : ChangeLoanAmount(v)
  \/ \E v \in {NaN, Num(5)} : ChangeInterestRate(v)
  \/ \E v \in {NaN, Num(30)} :
       PeriodsBounded(OrZero(v), paymentFrequency) /\ ChangeLoanTerm(v)
  \/ \E d \in {"", "2026-01-01"} : ChangeFirstPaymentDate(d)
  \/ \E f \in PaymentFrequency :
       PeriodsBounded(loanTerm, f) /\ ChangePaymentFrequency(f)
  \/ \E v \in {NaN, Num(500)} : ChangeExtraPayment(v)
  \/ ToggleFullSchedule

SpecView == Init /\ [][NextView]_vars

\* The loan form with short and long schedules, the schedule toggle and the
\* export button.
NextExport ==
  \/ \E v \in {NaN, Num(300000)} : ChangeLoanAmount(v)
  \/ \E v \in {NaN, Num(5), Num(30)} :
       PeriodsBounded(OrZero(v), paymentFrequency) /\ ChangeLoanTerm(v)
  \/ \E v \in {NaN, Num(500)} : ChangeExtraPayment(v)
  \/ ToggleFullSchedule
  \/ HandleExportExcel

SpecExport == Init /\ [][NextExport]_vars

---------------------------------------------------------------------------
(* Properties of the payment and schedule computation (under SpecLoan).    *)

\* |a - b| <= tol
Within(a, b, tol) == Le(Sub(a, b), tol) /\ Le(Sub(b, a), tol)

\* A valid, non-degenerate loan: positive amount, rate >= 0, term >= 1 year
\* (the typed terms are whole numbers).
NonDegenerate ==
  Gt(loanAmount, Zero) /\ Ge(interestRate, Zero) /\ Ge(loanTerm, Num(1))

\* The schedule of the current loan with another extra payment per period.
ScheduleWith(extra) ==
  CalculateAmortization(Inputs(loanAmount, interestRate, loanTerm,
                               paymentFrequency, extra))

\* C1: with loanAmount <= 0 or totalPeriods <= 0 the periodic payment is 0
\* and the schedule is empty; with loanTerm <= 0 the schedule is empty; the
\* payment is an ordinary number (no NaN, no Infinity) in these cases.
C1_DegenerateInputs ==
  /\ (Le(loanAmount, Zero) \/ Le(totalPeriods, Zero))
       => /\ paymentPerPeriod = Zero
          /\ amortizationData = <<>>
  /\ Le(loanTerm, Zero) => amortizationData = <<>>
  /\ (Le(loanAmount, Zero) \/ Le(totalPeriods, Zero) \/ Le(loanTerm, Zero))
       => ~IsSpecial(paymentPerPeriod)

\* C1's case: a negative amount typed into a form whose term is positive.
C1_Witness ==
  /\ Lt(loanAmount, Zero)
  /\ Gt(totalPeriods, Zero)
  /\ Gt(interestRate, Zero)
  /\ paymentPerPeriod = Zero
  /\ amortizationData = <<>>

\* C2: for a valid non-degenerate loan without extra payment, the final
\* row's cumulativePrincipal is the loan amount within 0.01 and its
\* remaining balance is 0 within 0.01.
C2_FinalRowSettles ==
  (NonDegenerate /\ extraPaymentPerPeriod = Zero)
    => LET rows == amortizationData
       IN  rows # <<>>
             => /\ Within(LastRow(rows).cumulativePrincipal, loanAmount,
                          Epsilon)
                /\ Within(LastRow(rows).remaining, Zero, Epsilon)

\* C3 as stated: an extra payment > 0 gives a strictly smaller total
\* interest and no more rows than no extra payment, for every valid
\* non-degenerate loan, a zero interest rate included.
C3_StrictlyLessInterest ==
  (NonDegenerate /\ Gt(extraPaymentPerPeriod, Zero))
    => LET rows  == amortizationData
           plain == ScheduleWith(Zero)
       IN  /\ Lt(TotalInterest(rows), TotalInterest(plain))
           /\ Len(rows) <= Len(plain)

\* The scenario of C3: 300000 at 5 % over 30 years, monthly, 500 extra.
C3_Scenario ==
  /\ loanAmount = Num(300000)
  /\ interestRate = Num(5)
  /\ loanTerm = Num(30)
  /\ paymentFrequency = "monthly"
  /\ extraPaymentPerPeriod = Num(500)

\* C3, amended: an extra payment > 0 never gives a larger total interest nor
\* more rows than no extra payment; the total interest is strictly smaller
\* when the interest rate is positive (at a zero rate both are 0); the
\* scenario's schedule has fewer than 30 rows.
C3_LessInterest ==
  /\ (NonDegenerate /\ Gt(extraPaymentPerPeriod, Zero))
       => LET rows  == amortizationData
              plain == ScheduleWith(Zero)
          IN  /\ Le(TotalInterest(rows), TotalInterest(plain))
              /\ Gt(interestRate, Zero)
                   => Lt(TotalInterest(rows), TotalInterest(plain))
              /\ interestRate = Zero
                   => /\ TotalInterest(rows) = Zero
                      /\ TotalInterest(plain) = Zero
              /\ Len(rows) <= Len(plain)
  /\ C3_Scenario => Len(amortizationData) < 30

\* C3's case: the scenario, paid off early.
C3_Witness ==
  /\ C3_Scenario
  /\ LET rows  == amortizationData
         plain == ScheduleWith(Zero)
     IN  /\ Len(rows) < 30
         /\ Len(plain) = 30
         /\ Lt(TotalInterest(rows), TotalInterest(plain))

\* C4: the rows' years are 1, 2, ..., k in that order, and k is at most
\* the loan term in years.
C4_YearsInOrder ==
  LET rows == amortizationData
  IN  /\ \A i \in 1..Len(rows) : rows[i].year = i
      /\ Le(Num(Len(rows)), Max0(loanTerm))

\* C4's case: a schedule of several years that ends before the term.
C4_Witness ==
  LET rows == amortizationData
  IN  /\ Len(rows) > 1
      /\ Lt(Num(Len(rows)), loanTerm)
      /\ rows[Len(rows)].year = Len(rows)

\* C5: for valid parameters, cumulativePrincipal never decreases from row to
\* row, remaining never increases and is never negative, and the final
\* row's remaining is 0 within 0.01.
C5_Monotone ==
  (NonDegenerate /\ Ge(extraPaymentPerPeriod, Zero))
    => LET rows == amortizationData
       IN  /\ \A i \in 1..(Len(rows) - 1) :
                /\ Le(rows[i].cumulativePrincipal,
                      rows[i + 1].cumulativePrincipal)
                /\ Ge(rows[i].remaining, rows[i + 1].remaining)
           /\ \A i \in 1..Len(rows) : Ge(rows[i].remaining, Zero)
           /\ rows # <<>> => Le(LastRow(rows).remaining, Epsilon)

\* C6: with ratePerPeriod = 0, totalPeriods > 0 and loanAmount >= 0 the
\* periodic payment is exactly loanAmount / totalPeriods, and no period
\* charges interest.
C6_ZeroRate ==
  (ratePerPeriod = Zero /\ Gt(totalPeriods, Zero) /\ Ge(loanAmount, Zero))
    => LET rows == amortizationData
       IN  /\ paymentPerPeriod = Div(loanAmount, totalPeriods)
           /\ InterestPayment(loanAmount, ratePerPeriod) = Zero
           /\ \A i \in 1..Len(rows) :
                /\ rows[i].interest = Zero
                /\ rows[i].cumulativeInterest = Zero

\* C6's case: a zero-rate loan of several years with its schedule.
C6_Witness ==
  /\ ratePerPeriod = Zero
  /\ Gt(loanAmount, Zero)
  /\ Gt(paymentPerPeriod, Zero)
  /\ LET rows == amortizationData
     IN  Len(rows) > 1 /\ TotalInterest(rows) = Zero

\* C7: totalInterest is the last row's cumulativeInterest, or 0 for an empty
\* schedule; totalPrincipal is the last row's cumulativePrincipal, or the
\* loan amount for an empty schedule; totalPayment is their sum; with
\* loanAmount = 0 the payment, totalPrincipal and totalPayment are 0 and the
\* schedule is empty.
C7_Summary ==
  LET rows == amortizationData
      interest  == TotalInterest(rows)
      principal == TotalPrincipal(rows, loanAmount)
      payment   == TotalPayment(rows, loanAmount)
  IN  /\ IF rows = <<>>
           THEN /\ interest = Zero
                /\ principal = loanAmount
           ELSE /\ interest = rows[Len(rows)].cumulativeInterest
                /\ principal = rows[Len(rows)].cumulativePrincipal
      /\ payment = Add(principal, interest)
      /\ loanAmount = Zero
           => /\ paymentPerPeriod = Zero
              /\ rows = <<>>
              /\ principal = Zero
              /\ payment = Zero

\* C7's case: an empty schedule whose loan amount is not 0.
C7_Witness ==
  /\ amortizationData = <<>>
  /\ loanAmount # Zero
  /\ totalPrincipal = loanAmount
  /\ totalPayment = loanAmount

---------------------------------------------------------------------------
(* Properties of the monthly breakdown (under Spec).                       *)

\* C8: the monthly total is the sum of five components, paymentPerPeriod x
\* periodsPerYear / 12, homeValue x (propertyTaxRate / 100) / 12,
\* yearlyInsurance / 12, monthlyHOA and extraPaymentPerPeriod x
\* periodsPerYear / 12, added in the order of the code; the sum is taken
\* over the form's values alone, whatever the schedule.
C8_PITISum ==
  monthlyPITI =
    Add(Add(Add(Add(Div(Mul(paymentPerPeriod, Num(periodsPerYear)), Num(12)),
                    Div(Mul(homeValue, Div(propertyTaxRate, Num(100))),
                        Num(12))),
                Div(yearlyInsurance, Num(12))),
            monthlyHOA),
        Div(Mul(extraPaymentPerPeriod, Num(periodsPerYear)), Num(12)))

\* C8's case: every component is positive, and the loan is paid off early,
\* so that the periodic payment is not paid over the whole term.
C8_Witness ==
  /\ Gt(principalAndInterestPerMonth, Zero)
  /\ Gt(monthlyPropertyTax, Zero)
  /\ Gt(monthlyInsurance, Zero)
  /\ Gt(monthlyHOA, Zero)
  /\ Gt(extraPerMonth, Zero)
  /\ Gt(monthlyPITI, principalAndInterestPerMonth)
  /\ Lt(Num(Len(amortizationData)), loanTerm)

\* The values typed into the form are all >= 0.
NonNegativeInputs ==
  /\ Ge(loanAmount, Zero)
  /\ Ge(interestRate, Zero)
  /\ Ge(loanTerm, Zero)
  /\ Ge(extraPaymentPerPeriod, Zero)
  /\ Ge(homeValue, Zero)
  /\ Ge(propertyTaxRate, Zero)
  /\ Ge(yearlyInsurance, Zero)
  /\ Ge(monthlyHOA, Zero)

\* C9: for inputs >= 0 every field of the monthly breakdown is >= 0, each
\* component is 0 when its input is 0, and the total is 0 when all of them
\* are.
C9_NonNegative ==
  NonNegativeInputs
    => /\ Ge(principalAndInterestPerMonth, Zero)
       /\ Ge(extraPerMonth, Zero)
       /\ Ge(yearlyPropertyTax, Zero)
       /\ Ge(monthlyPropertyTax, Zero)
       /\ Ge(monthlyInsurance, Zero)
       /\ Ge(monthlyPITI, Zero)
       /\ paymentPerPeriod = Zero => principalAndInterestPerMonth = Zero
       /\ extraPaymentPerPeriod = Zero => extraPerMonth = Zero
       /\ (homeValue = Zero \/ propertyTaxRate = Zero)
            => monthlyPropertyTax = Zero
       /\ yearlyInsurance = Zero => monthlyInsurance = Zero
       /\ ( /\ paymentPerPeriod = Zero
            /\ extraPaymentPerPeriod = Zero
            /\ propertyTaxRate = Zero
            /\ yearlyInsurance = Zero
            /\ monthlyHOA = Zero ) => monthlyPITI = Zero

\* C9's case: a form whose payment, extra payment, tax rate, insurance and
\* HOA fee are all 0 while the home value is not.
C9_Witness ==
  /\ NonNegativeInputs
  /\ paymentPerPeriod = Zero
  /\ extraPaymentPerPeriod = Zero
  /\ propertyTaxRate = Zero
  /\ yearlyInsurance = Zero
  /\ monthlyHOA = Zero
  /\ Gt(homeValue, Zero)
  /\ monthlyPITI = Zero

---------------------------------------------------------------------------
(* Properties of the rendering (under SpecView).                           *)

---------------------------------------------------------------------------
(* Termination of the schedule loop (under SpecExtreme).                   *)

\* A term a number input accepts that is finite while twelve times it is
\* not: 9.999e307.
HugeTerm == Mk(FALSE, <<Base - 1>>, MaxTop - 1)

\* The number of periods is within MaxPeriods or infinite.
PeriodsBoundedOrInfinite(term, f) ==
  \/ PeriodsBounded(term, f)
  \/ IsInf(TotalPeriods(term, PERIODS_PER_YEAR[f]))

\* The loan form with extreme values among the typed ones.
NextExtreme ==
  \/ \E v \in {NaN, Num(1000), Num(300000)} : ChangeLoanAmount(v)
  \/ \E v \in {NaN, Num(5), Num(100)} : ChangeInterestRate(v)
  \/ \E v \in {NaN, Num(1), Num(30), HugeTerm} :
       PeriodsBoundedOrInfinite(OrZero(v), paymentFrequency)
         /\ ChangeLoanTerm(v)
  \/ \E f \in PaymentFrequency :
       PeriodsBoundedOrInfinite(loanTerm, f) /\ ChangePaymentFrequency(f)
  \/ \E v \in {NaN, Num(1000)} : ChangeExtraPayment(v)

SpecExtreme == Init /\ [][NextExtreme]_vars

\* The inputs of the schedule in the current state.
CurrentInputs ==
  Inputs(loanAmount, interestRate, loanTerm, paymentFrequency,
         extraPaymentPerPeriod)

\* calculateAmortization enters its loop.
LoopEntered(in) ==
  ~(Le(in.loanAmount, Zero) \/ Le(in.loanTerm, Zero)
      \/ Le(in.totalPeriods, Zero))

\* C11: schedule generation always terminates: for every input the loop
\* has ended after at most totalPeriods iterations.
C11_Terminates ==
  LET in == CurrentInputs
  IN  LoopEntered(in)
        => LET end == LoopEnd(in)
           IN  end.done /\ Le(Num(end.periods), in.totalPeriods)

----------------------------------------------------------------------------
\* Yearly sums (under SpecLoan)

\* The amount a full year without a clamped payment pays in.
FullYearAmount(in) ==
  Mul(Num(in.periodsPerYear),
      Add(in.paymentPerPeriod, in.extraPaymentPerPeriod))

----------------------------------------------------------------------------
\* The default loan (under SpecLoan)

\* 300000 at 5 % over 30 years, paid monthly, without extra payment.
C13_Scenario ==
  /\ loanAmount = Num(300000)
  /\ interestRate = Num(5)
  /\ loanTerm = Num(30)
  /\ paymentFrequency = "monthly"
  /\ extraPaymentPerPeriod = Zero

\* What the scenario fixes whatever the first row's split is: 360 periods,
\* a payment of 1610.46 to the cent, 30 rows, the last with nothing left.
ScenarioFrame ==
  /\ totalPeriods = Num(360)
  /\ Within(paymentPerPeriod, Dec(161046, 2), Dec(5, 3))
  /\ Len(amortizationData) = 30
  /\ Within(amortizationData[30].remaining, Zero, Epsilon)

\* C13 as stated: in the scenario there are 360 periods, the payment is
\* about 1610.46, the schedule has 30 rows, the first row has interest
\* about 14947 and principal about 4378 (to the unit), and the 30th row's
\* remaining balance is about 0.
C13_FirstRowAsStated ==
  C13_Scenario
    => /\ ScenarioFrame
       /\ Within(amortizationData[1].interest, Num(14947), Num(1))
       /\ Within(amortizationData[1].principal, Num(4378), Num(1))

\* C13, amended: as stated, but the first row has interest about 14899 and
\* principal about 4426 (to the unit).
C13_FirstRow ==
  C13_Scenario
    => /\ ScenarioFrame
       /\ Within(amortizationData[1].interest, Num(14899), Num(1))
       /\ Within(amortizationData[1].principal, Num(4426), Num(1))

\* The scenario's schedule has been computed.
C13_Witness ==
  C13_Scenario /\ Len(amortizationData) = 30 /\ C13_FirstRow

----------------------------------------------------------------------------
\* The domain of the loan parameters (under SpecLoan)

\* Number.isInteger(x): a normalised finite Number without limbs below the
\* units.
IsInteger(x) == ~IsSpecial(x) /\ (IsZero(x) \/ x.exp >= 0)

\* C14: in every state the input-change events can reach, loanAmount >= 0,
\* interestRate >= 0, loanTerm is an integer >= 0, extraPaymentPerPeriod
\* >= 0, and paymentFrequency is one of the four frequencies, which map to
\* 12, 26, 52 and 24 periods per year.
C14_Domain ==
  /\ Ge(loanAmount, Zero)
  /\ Ge(interestRate, Zero)
  /\ IsInteger(loanTerm) /\ Ge(loanTerm, Zero)
  /\ Ge(extraPaymentPerPeriod, Zero)
  /\ paymentFrequency \in {"monthly", "biweekly", "weekly", "semimonthly"}
  /\ PERIODS_PER_YEAR["monthly"] = 12
  /\ PERIODS_PER_YEAR["biweekly"] = 26
  /\ PERIODS_PER_YEAR["weekly"] = 52
  /\ PERIODS_PER_YEAR["semimonthly"] = 24

----------------------------------------------------------------------------
\* The clamp of the final payment (under SpecLoan)

\* C15: no period overpays, for any extra payment >= 0: the principal of a
\* period is at most the balance it starts from, so the balance never goes
\* below 0 and the last row's cumulativePrincipal never exceeds loanAmount.
\* A period that takes the balance to 0.01 or less ends the loop, so the
\* balance the loop ends with is the lowest one; both comparisons leave
\* 0.01 of room for rounding.
C15_NoOverpay ==
  LET in   == CurrentInputs
      rows == amortizationData
  IN  (LoopEntered(in) /\ Ge(extraPaymentPerPeriod, Zero))
        => /\ Ge(LoopEnd(in).balance, Neg(Epsilon))
           /\ rows # <<>>
                => Le(LastRow(rows).cumulativePrincipal,
                      Add(loanAmount, Epsilon))

----------------------------------------------------------------------------
\* Early payoff (under SpecLoan)

\* C16: no period is simulated after the first one that leaves a balance
\* <= 0.01: a loop that ends before totalPeriods ends with such a balance,
\* the last row is the year of the last simulated period, and every row
\* except the last has remaining > 0.01.
C16_EarlyPayoff ==
  LET in   == CurrentInputs
      rows == amortizationData
  IN  LoopEntered(in)
        => LET end == LoopEnd(in)
           IN  /\ Lt(Num(end.periods), in.totalPeriods)
                    => Le(end.balance, Epsilon)
               /\ rows # <<>>
                    => LastRow(rows).year
                         = YearOf(end.periods, in.periodsPerYear)
               /\ \A i \in 1..(Len(rows) - 1) :
                    Gt(rows[i].remaining, Epsilon)

\* A loan of several years paid off years before its term.
C16_Witness ==
  /\ LoopEntered(CurrentInputs)
  /\ Lt(Num(LoopEnd(CurrentInputs).periods), totalPeriods)
  /\ Len(amortizationData) > 1
  /\ Lt(Num(LastRow(amortizationData).year), loanTerm)

----------------------------------------------------------------------------
\* The loan-breakdown bars (under SpecLoan)

\* (totalPrincipal / totalPayment) * 100, the width of the principal bar
principalBarWidth == Mul(Div(totalPrincipal, totalPayment), Num(100))

\* (totalInterest / totalPayment) * 100, the width of the interest bar
interestBarWidth == Mul(Div(totalInterest, totalPayment), Num(100))

\* An ordinary number: neither NaN nor an infinity.
IsFinite(x) == ~IsSpecial(x)

\* C17: in every reachable state with an empty schedule, the values
\* rendered from the summary are well defined: the totals are ordinary
\* numbers, and the two bar shares are computed with a divisor other than 0
\* and are ordinary numbers.
C17_EmptySchedule ==
  amortizationData = <<>>
    => /\ IsFinite(paymentPerPeriod)
       /\ IsFinite(totalPrincipal) /\ IsFinite(totalInterest)
       /\ IsFinite(totalPayment)
       /\ ~IsZero(totalPayment)
       /\ IsFinite(principalBarWidth)
       /\ IsFinite(interestBarWidth)

----------------------------------------------------------------------------
\* The exported file (under SpecExport)

\* The places of the line feeds in the text c, in order.
LineFeeds(c) == SortedKeys({i \in 1..Len(c) : SubSeq(c, i, i) = "\n"})

\* The k-th of the pieces the line feeds cut the text c into.
Piece(c, k) ==
  LET lf == LineFeeds(c)
  IN  SubSeq(c, IF k = 1 THEN 1 ELSE lf[k - 1] + 1,
                IF k > Len(lf) THEN Len(c) ELSE lf[k] - 1)

\* The text c starts with the header line and goes on with one line per row
\* of rows, in the rows' order, which is ascending in the year.
HeaderAndRows(c, rows) ==
  /\ Piece(c, 1) = "Year,Principal Paid,Interest Paid,Cumulative Principal,"
                     \o "Cumulative Interest,Remaining Balance"
  /\ \A k \in 1..Len(rows) :
        LET y == ToString(rows[k].year) \o ","
        IN  /\ SubSeq(Piece(c, k + 1), 1, Len(y)) = y
            /\ Piece(c, k + 1) = Join(CsvRow(rows[k]), ",")
            /\ k > 1 => rows[k].year > rows[k - 1].year

\* The text c is the export of rows with every line, the last included,
\* ended by a line feed.
TerminatedLines(c, rows) ==
  /\ Len(LineFeeds(c)) = Len(rows) + 1
  /\ SubSeq(c, Len(c), Len(c)) = "\n"
  /\ HeaderAndRows(c, rows)

\* The text c is the export of rows with a line feed between two lines and
\* none after the last.
SeparatedLines(c, rows) ==
  /\ Len(LineFeeds(c)) = Len(rows)
  /\ SubSeq(c, Len(c), Len(c)) # "\n"
  /\ HeaderAndRows(c, rows)

\* C18 as stated: the exported file is the header line followed by exactly
\* one line per row of the complete schedule in ascending year order, also
\* when the table is collapsed, every line, the last included, ended by a
\* line feed.
C18_NewlineTerminated ==
  lastExport # <<>> => TerminatedLines(csvDownload, exportedSchedule)

\* C18, amended: as stated, but the lines are separated by line feeds and
\* the last line is not ended by one.
C18_Export ==
  lastExport # <<>> => SeparatedLines(csvDownload, exportedSchedule)

\* The state after an export of a schedule of more than ten rows made while
\* the table is collapsed.
C18_Witness ==
  /\ lastExport # <<>>
  /\ exportedSchedule = amortizationData
  /\ ~showFullSchedule
  /\ Len(rowsToShow) = 10
  /\ Len(amortizationData) > 10
  /\ Len(LineFeeds(csvDownload)) = Len(amortizationData)

----------------------------------------------------------------------------
\* Balance conservation (under SpecLoan)

\* C19: in every row, remaining is loanAmount - cumulativePrincipal, or 0
\* where that is negative (within 0.01): the balance at the end of the year
\* is the loan amount less all principal paid through that year.
C19_Conservation ==
  LET rows == amortizationData
  IN  \A i \in 1..Len(rows) :
        LET left == Sub(loanAmount, rows[i].cumulativePrincipal)
        IN  Within(rows[i].remaining,
                   IF Lt(left, Zero) THEN Zero ELSE left, Epsilon)

\* A schedule of several rows whose last payment takes the balance below 0.
C19_Witness ==
  /\ Len(amortizationData) > 1
  /\ Lt(Sub(loanAmount, LastRow(amortizationData).cumulativePrincipal),
        Neg(Epsilon))
  /\ LastRow(amortizationData).remaining = Zero
  /\ Gt(amortizationData[1].remaining, Zero)

----------------------------------------------------------------------------
\* The schedule toggle (under SpecExport)

\* The table shows the first min(10, N) rows of the N rows of the schedule
\* while showFullSchedule is false and all N rows while it is true.
TableRule ==
  LET rows  == amortizationData
      shown == rowsToShow
      n     == Len(rows)
  IN  /\ Len(shown) = (IF showFullSchedule \/ n < 10 THEN n ELSE 10)
      /\ \A i \in 1..Len(shown) : shown[i] = rows[i]

\* A step that changes showFullSchedule flips it and changes no loan
\* parameter, no other field of the form and no export, hence none of the
\* values computed from them: schedule, summary totals, monthly breakdown.
FlipRule ==
  showFullSchedule' # showFullSchedule
    => /\ showFullSchedule' = ~showFullSchedule
       /\ UNCHANGED <<loanAmount, interestRate, loanTerm, homeValue,
                      propertyTaxRate, yearlyInsurance, monthlyHOA,
                      firstPaymentDate, paymentFrequency,
                      extraPaymentPerPeriod, lastExport>>

\* C20: showFullSchedule starts false; the table shows the first
\* min(10, N) rows while it is false and all N rows while it is true; each
\* toggle flips it and leaves the loan parameters, the schedule, the
\* summary totals and the monthly breakdown unchanged.
C20_Toggle ==
  /\ ~showFullSchedule
  /\ []TableRule
  /\ [][FlipRule]_vars

\* The table expanded by a toggle, with a schedule of more than ten rows
\* all of which it shows.
C20_Witness ==
  /\ showFullSchedule
  /\ Len(rowsToShow) > 10
  /\ TableRule

=============================================================================
